---- MODULE Spec2Model ----
(***************************************************************************)
(* Model of .cursor/scripts/summarize_session.py: the transcript analyzer  *)
(* (context resolver, regex extraction, error/resolution correlator) and   *)
(* the three outputs of a run (console, bugfixes.md, last_session_summary).*)
(*                                                                         *)
(* Text is a sequence of tokens.  A token is a string standing for a run   *)
(* of characters that the regular expressions treat as a unit: a trigger   *)
(* word, the newline "\n", the full stop ".", or any other word.           *)
(***************************************************************************)
EXTENDS Integers, Sequences, FiniteSets, TLC

(* ------------------------------ bounds --------------------------------- *)
MaxLines == 4          \* lines of a transcript handed to the correlator
MaxWindow == 5         \* largest value of the window parameter tried
MaxRunLines == 1       \* lines of the systematically generated transcripts of a run
MaxRuns == 2           \* invocations of summarize_session in a behaviour
MaxChunks == 2         \* chunks the process feeding stdin may write

(* --------------------------- program constants ------------------------- *)
NL == "\n"
DOT == "."
DefaultWindow == 5
ContextWindow == 3
ErrorVocabulary == {"error", "exception", "failed", "failure"}
SolvedVocabulary == {"that worked", "fixed", "solved"}
TentativeVocabulary == {"let's try", "try something", "different approach"}
UncertainVocabulary == {"this might", "maybe", "could try"}
ResolutionPhrases == {"that worked", "fixed", "solved", "resolved"}
ActionMarkers == {"edit_file", "run_terminal_cmd"}
Profanity == {"damn", "shit", "fuck", "crap"}
ShoutTokens == {"ARGH"}      \* the tokens of the alphabet matching [A-Z !]{4,}
NoContext == <<"No conversation context found">>

(* ------------------------------ text helpers --------------------------- *)
Separators == {NL, DOT}

\* str.lower() / re.I on the tokens of the alphabet
Lower(t) == CASE t = "Error" -> "error"
              [] t = "Fixed" -> "fixed"
              [] OTHER -> t

RECURSIVE SplitFrom(_, _, _, _)
SplitFrom(s, i, cur, acc) ==
  IF i > Len(s) THEN Append(acc, cur)
  ELSE IF s[i] = NL THEN SplitFrom(s, i + 1, <<>>, Append(acc, cur))
  ELSE SplitFrom(s, i + 1, Append(cur, s[i]), acc)

\* context.split('\n')
SplitLines(s) == SplitFrom(s, 1, <<>>, <<>>)

RECURSIVE JoinFrom(_, _, _)
JoinFrom(lines, i, to) ==
  IF i > to THEN <<>>
  ELSE IF i = to THEN lines[i]
  ELSE lines[i] \o <<NL>> \o JoinFrom(lines, i + 1, to)

\* '\n'.join(lines[from-1:to])  (1-based, inclusive)
JoinLines(lines, from, to) == JoinFrom(lines, from, to)

\* sub in line
Contains(line, sub) ==
  \E k \in 0..(Len(line) - Len(sub)) : SubSeq(line, k + 1, k + Len(sub)) = sub

HasToken(line, toks) == \E k \in 1..Len(line) : line[k] \in toks

\* any(phrase in lines[i].lower() for phrase in [...])
HasResolution(line) == \E k \in 1..Len(line) : Lower(line[k]) \in ResolutionPhrases

\* 'edit_file' in lines[j] or 'run_terminal_cmd' in lines[j]
HasAction(line) == HasToken(line, ActionMarkers)

Min(a, b) == IF a < b THEN a ELSE b
Max(a, b) == IF a > b THEN a ELSE b

(* ------------------------- find_solution_for_error --------------------- *)
None == [found |-> FALSE, text |-> <<>>]
Some(t) == [found |-> TRUE, text |-> t]

\* [i for i, line in enumerate(lines) if error in line], 1-based, ascending
RECURSIVE ErrorIndicesFrom(_, _, _)
ErrorIndicesFrom(lines, error, i) ==
  IF i > Len(lines) THEN <<>>
  ELSE IF Contains(lines[i], error)
       THEN <<i>> \o ErrorIndicesFrom(lines, error, i + 1)
       ELSE ErrorIndicesFrom(lines, error, i + 1)

ErrorIndices(lines, error) == ErrorIndicesFrom(lines, error, 1)

\* for j in range(i-1, error_idx, -1): nearest action line below i, 0 if none
RECURSIVE LookBack(_, _, _)
LookBack(lines, j, e) ==
  IF j <= e THEN 0
  ELSE IF HasAction(lines[j]) THEN j
  ELSE LookBack(lines, j - 1, e)

\* range(error_idx + 1, min(len(lines), error_idx + window)), as 1-based
\* inclusive upper end
ForwardEnd(n, e, window) == Min(n, e + window - 1)

\* what the inner loops do after a resolution line whose backward scan
\* found no action line: the for loop over i simply goes on
AfterMiss_Break(i, last) == last + 1
AfterMiss(i, last) == i + 1

\* for i in range(...): the scan of one occurrence; None when it falls through
RECURSIVE ScanForward(_, _, _, _)
ScanForward(lines, e, i, last) ==
  IF i > last THEN None
  ELSE IF HasResolution(lines[i])
       THEN LET j == LookBack(lines, i - 1, e)
            IN IF j # 0 THEN Some(JoinLines(lines, j, i))
               ELSE ScanForward(lines, e, AfterMiss(i, last), last)
       ELSE ScanForward(lines, e, i + 1, last)

\* for error_idx in error_indices: the next occurrence is tried when one
\* falls through
NextOccurrence(idxs, k) == k + 1

RECURSIVE ScanOccurrences(_, _, _, _)
ScanOccurrences(lines, idxs, k, window) ==
  IF k > Len(idxs) THEN None
  ELSE LET e == idxs[k]
           r == ScanForward(lines, e, e + 1, ForwardEnd(Len(lines), e, window))
       IN IF r.found THEN r
          ELSE ScanOccurrences(lines, idxs, NextOccurrence(idxs, k), window)

find_solution_for_error(context, error, window) ==
  LET lines == SplitLines(context)
  IN ScanOccurrences(lines, ErrorIndices(lines, error), 1, window)

(* --------------------------- extract_error_context --------------------- *)
\* index of the first line containing error_match, 0 if none
RECURSIVE FirstLineWith(_, _, _)
FirstLineWith(lines, sub, i) ==
  IF i > Len(lines) THEN 0
  ELSE IF Contains(lines[i], sub) THEN i
  ELSE FirstLineWith(lines, sub, i + 1)

extract_error_context(context, error_match, window) ==
  LET lines == SplitLines(context)
      i == FirstLineWith(lines, error_match, 1)
  IN IF i = 0 THEN error_match
     ELSE JoinLines(lines, Max(1, i - window), Min(Len(lines), i + window))

(* ------------------------------ extraction ----------------------------- *)
\* [^\n.]* from position p: index of the next separator, Len(s)+1 if none
RECURSIVE RunEnd(_, _)
RunEnd(s, p) ==
  IF p > Len(s) THEN Len(s) + 1
  ELSE IF s[p] \in Separators THEN p
  ELSE RunEnd(s, p + 1)

\* (?:[\n.][^\n.]*){0,k} from position e (a separator or the end), greedy
RECURSIVE Extend(_, _, _)
Extend(s, e, k) ==
  IF k = 0 \/ e > Len(s) THEN e
  ELSE Extend(s, RunEnd(s, e + 1), k - 1)

\* re.findall(r"(?:error|exception|failed|failure)[^\n.]*[\n.][^\n.]*", s, re.I)
RECURSIVE FindErrors(_, _)
FindErrors(s, p) ==
  IF p > Len(s) THEN <<>>
  ELSE IF Lower(s[p]) \in ErrorVocabulary
       THEN LET q == RunEnd(s, p + 1)
            IN IF q > Len(s) THEN FindErrors(s, p + 1)
               ELSE LET q2 == RunEnd(s, q + 1)
                    IN <<SubSeq(s, p, q2 - 1)>> \o FindErrors(s, q2)
       ELSE FindErrors(s, p + 1)

\* re.findall(r"(?:<vocabulary>)[^\n.]*(?:[\n.][^\n.]*){0,2}", s, re.I)
RECURSIVE FindPhrases(_, _, _)
FindPhrases(s, vocabulary, p) ==
  IF p > Len(s) THEN <<>>
  ELSE IF Lower(s[p]) \in vocabulary
       THEN LET e == Extend(s, RunEnd(s, p + 1), 2)
            IN <<SubSeq(s, p, e - 1)>> \o FindPhrases(s, vocabulary, e)
       ELSE FindPhrases(s, vocabulary, p + 1)

\* re.findall(r"([A-Z !]{4,}|(?:damn|shit|fuck|crap))[^\n.]*", s): the group only
RECURSIVE FindFrustration(_, _)
FindFrustration(s, p) ==
  IF p > Len(s) THEN <<>>
  ELSE IF s[p] \in ShoutTokens \cup Profanity
       THEN <<s[p]>> \o FindFrustration(s, RunEnd(s, p + 1))
       ELSE FindFrustration(s, p + 1)

Errors(ctx) == FindErrors(ctx, 1)
Frustration(ctx) == FindFrustration(ctx, 1)
Solutions(ctx) == FindPhrases(ctx, SolvedVocabulary, 1)

Tagged(prefix, matches) == [k \in 1..Len(matches) |-> [prefix |-> prefix, text |-> matches[k]]]

\* the ("??", match) pairs followed by the ("?", match) pairs
Ambiguous(ctx) ==
  Tagged("??", FindPhrases(ctx, TentativeVocabulary, 1)) \o
  Tagged("?", FindPhrases(ctx, UncertainVocabulary, 1))

CountOf(x, seq) == Cardinality({k \in 1..Len(seq) : seq[k] = x})

\* the distinct elements in order of first appearance
RECURSIVE Distinct(_, _)
Distinct(seq, k) ==
  IF k > Len(seq) THEN <<>>
  ELSE IF \E m \in 1..(k - 1) : seq[m] = seq[k] THEN Distinct(seq, k + 1)
  ELSE <<seq[k]>> \o Distinct(seq, k + 1)

\* stable insertion by descending count
RECURSIVE InsertByCount(_, _)
InsertByCount(sorted, x) ==
  IF sorted = <<>> THEN <<x>>
  ELSE IF Head(sorted).count >= x.count THEN <<Head(sorted)>> \o InsertByCount(Tail(sorted), x)
  ELSE <<x>> \o sorted

RECURSIVE SortByCount(_, _)
SortByCount(pairs, k) ==
  IF k = 0 THEN <<>>
  ELSE InsertByCount(SortByCount(pairs, k - 1), pairs[k])

\* Counter(errors).most_common()
MostCommon(errors) ==
  LET d == Distinct(errors, 1)
      pairs == [k \in 1..Len(d) |-> [error |-> d[k], count |-> CountOf(d[k], errors)]]
  IN SortByCount(pairs, Len(pairs))

(***************************************************************************)
(* Specification SpecFind: find_solution_for_error as a function of its    *)
(* arguments.                                                              *)
(***************************************************************************)
VARIABLES fpc, flines, ferror, fwindow, fresult
VARIABLES pc, runs, context, console, bugfixes, summary
VARIABLES cpc, envValue, stdinKind, stdinBuf, writerOpen, written, polled, histFile, ctxResult

findVars == <<fpc, flines, ferror, fwindow, fresult>>
runVars == <<pc, runs, context, console, bugfixes, summary>>
ctxVars == <<cpc, envValue, stdinKind, stdinBuf, writerOpen, written, polled, histFile, ctxResult>>
vars == <<findVars, runVars, ctxVars>>

FindError == <<"boom">>

\* a line holds any of: the error text, an action marker, a resolution phrase
LineOf(hasErr, hasAct, hasRes) ==
  (IF hasErr THEN FindError ELSE <<>>) \o
  (IF hasAct THEN <<"edit_file">> ELSE <<>>) \o
  (IF hasRes THEN <<"fixed">> ELSE <<>>) \o
  (IF ~hasErr /\ ~hasAct /\ ~hasRes THEN <<"w">> ELSE <<>>)

LineKinds == {LineOf(a, b, c) : a \in BOOLEAN, b \in BOOLEAN, c \in BOOLEAN}

FindTranscripts == UNION {[1..n -> LineKinds] : n \in 1..MaxLines}

FindIdle == fpc = "idle" /\ flines = <<>> /\ ferror = <<>> /\ fwindow = 0 /\ fresult = None
RunIdle == /\ pc = "idle" /\ runs = 0 /\ context = <<>> /\ console = <<>>
           /\ bugfixes = <<>> /\ summary = <<>>
CtxIdle == /\ cpc = "idle" /\ envValue = <<>> /\ stdinKind = "ok" /\ stdinBuf = <<>>
           /\ writerOpen = FALSE /\ written = 0 /\ polled = "none"
           /\ histFile = <<>> /\ ctxResult = <<>>

FindInit ==
  /\ fpc = "call"
  /\ flines \in FindTranscripts
  /\ ferror = FindError
  /\ fwindow \in 1..MaxWindow
  /\ fresult = None
  /\ RunIdle /\ CtxIdle

FindCall ==
  /\ fpc = "call"
  /\ fresult' = find_solution_for_error(JoinLines(flines, 1, Len(flines)), ferror, fwindow)
  /\ fpc' = "returned"
  /\ UNCHANGED <<flines, ferror, fwindow, runVars, ctxVars>>

FindNext == FindCall

SpecFind == FindInit /\ [][FindNext]_vars

(* ---------------- properties of find_solution_for_error ---------------- *)
FN == Len(flines)
OccursAt(e) == Contains(flines[e], ferror)
Occurrences == {e \in 1..FN : OccursAt(e)}
SingleOccurrence(e) == Occurrences = {e}
ActionBetween(e, r) == \E j \in (e + 1)..(r - 1) : HasAction(flines[j])
NearestAction(e, r) ==
  CHOOSE j \in (e + 1)..(r - 1) :
    HasAction(flines[j]) /\ \A k \in (j + 1)..(r - 1) : ~HasAction(flines[k])
Snippet(e, r) == JoinLines(flines, NearestAction(e, r), r)
Least(S) == CHOOSE x \in S : \A y \in S : x <= y

\* r is a resolution line at most `window` lines after e with an action line
\* strictly between the two
QualifiesWithin(e, r) ==
  /\ r \in 1..FN /\ r - e >= 1 /\ r - e <= fwindow
  /\ HasResolution(flines[r])
  /\ ActionBetween(e, r)

\* C1: when the error text occurs on exactly one line e and some resolution
\* line r with 1 <= r - e <= window has an action line between e and r, the
\* call returns a snippet (not None), running from the action line nearest
\* to such an r through r.
C1_ResolvedWithinWindow ==
  fpc = "returned" =>
    \A e \in 1..FN :
      (SingleOccurrence(e) /\ \E r \in 1..FN : QualifiesWithin(e, r)) =>
        /\ fresult.found
        /\ \E r \in 1..FN : QualifiesWithin(e, r) /\ fresult.text = Snippet(e, r)

\* the lines the forward scan of the occurrence at e visits
Scanned(e) == {i \in 1..FN : i > e /\ i - e < fwindow}
Hits(e) == {i \in Scanned(e) : HasResolution(flines[i])}
Qualifying(e) == {i \in Hits(e) : ActionBetween(e, i)}

\* C10 (as claimed): with a single occurrence e, when the first resolution
\* line of e's forward window has no action line between e and itself, the
\* call returns None, whatever later lines of the window hold.
C10_OnlyFirstHitUsed ==
  fpc = "returned" =>
    \A e \in 1..FN :
      (SingleOccurrence(e) /\ Hits(e) # {} /\ ~ActionBetween(e, Least(Hits(e)))) =>
        ~fresult.found

\* C10 (amended): the occurrences are tried in transcript order and, within
\* the window of one occurrence, the resolution lines in order; the first
\* resolution line that has an action line between the occurrence and itself
\* gives the snippet (nearest action line through that resolution line).  A
\* resolution line without such an action line is passed over.  None is
\* returned only when no occurrence has such a line.
C10_FirstQualifyingHitUsed ==
  fpc = "returned" =>
    LET resolving == {e \in Occurrences : Qualifying(e) # {}}
    IN IF resolving = {} THEN fresult = None
       ELSE LET e == Least(resolving)
            IN fresult = Some(Snippet(e, Least(Qualifying(e))))

\* a single occurrence whose first resolution line has no action line before
\* it while a later one of the same window has, and a snippet was returned
C10_Witness ==
  /\ fpc = "returned"
  /\ \E e \in 1..FN :
       /\ SingleOccurrence(e)
       /\ Hits(e) # {} /\ ~ActionBetween(e, Least(Hits(e)))
       /\ Qualifying(e) # {}
       /\ fresult.found

(***************************************************************************)
(* Specification Spec: repeated invocations of summarize_session.          *)
(* Output is a sequence of items; an item is one print or write call.      *)
(***************************************************************************)
Item(tag, text, n) == [tag |-> tag, text |-> text, n |-> n]
Head1(tag) == <<Item(tag, <<>>, 0)>>

RECURSIVE Unresolved(_, _, _)
\* the (error, count) pairs with `not find_solution_for_error(context, error)`
Unresolved(ctx, mce, k) ==
  IF k > Len(mce) THEN <<>>
  ELSE IF ~find_solution_for_error(ctx, mce[k].error, DefaultWindow).found
       THEN <<mce[k]>> \o Unresolved(ctx, mce, k + 1)
       ELSE Unresolved(ctx, mce, k + 1)

\* the condition guarding "1. Address remaining errors"
ListsItem1(ctx) == MostCommon(Errors(ctx)) # <<>>
ListsItem2(ctx) == Ambiguous(ctx) # <<>>

\* the three checklist lines of "Next Steps"
NextSteps(ctx) ==
  (IF ListsItem1(ctx) THEN Head1("1. Address remaining errors") ELSE <<>>) \o
  (IF ListsItem2(ctx) THEN Head1("2. Follow up on attempted changes") ELSE <<>>) \o
  Head1("3. Continue with planned development tasks")

\* the print calls of summarize_session
ConsoleOutput(ctx) ==
  LET solutions == Solutions(ctx)
      ambiguous == Ambiguous(ctx)
      mce == MostCommon(Errors(ctx))
      open == Unresolved(ctx, mce, 1)
  IN Head1("=== Session Summary ===") \o Head1("Session Date") \o
     (IF solutions # <<>>
        THEN Head1("Completed Changes:") \o
             [k \in 1..Len(solutions) |-> Item("v", solutions[k], 0)]
        ELSE <<>>) \o
     (IF ambiguous # <<>>
        THEN Head1("In Progress/Attempted Changes:") \o
             [k \in 1..Len(ambiguous) |-> Item(ambiguous[k].prefix, ambiguous[k].text, 0)]
        ELSE <<>>) \o
     (IF mce # <<>>
        THEN Head1("Outstanding Issues:") \o
             [k \in 1..Len(open) |-> Item("!", open[k].error, open[k].count)]
        ELSE <<>>) \o
     Head1("Next Steps:") \o NextSteps(ctx)

\* the writes for one (error, count) pair of the log section
ErrorEntry(ctx, pair) ==
  LET solution == find_solution_for_error(ctx, pair.error, DefaultWindow)
  IN <<Item("#### Error", <<>>, pair.count),
       Item("context", extract_error_context(ctx, pair.error, ContextWindow), 0)>> \o
     (IF solution.found THEN <<Item("Resolution", solution.text, 0)>>
      ELSE Head1("No clear resolution found"))

RECURSIVE ErrorEntries(_, _, _)
ErrorEntries(ctx, mce, k) ==
  IF k > Len(mce) THEN <<>>
  ELSE ErrorEntry(ctx, mce[k]) \o ErrorEntries(ctx, mce, k + 1)

\* `for f in set(frustration): f.write(...)`: the loop variable rebinds f,
\* so the first f.write of the body is called on a str and raises
\* AttributeError; nothing is written for any marker
MarkerLoop(frustration) ==
  [raised |-> frustration # <<>>, items |-> <<>>]

\* the body of `with open(BUGFIXES_FILE, "a") as f`: the items written
\* before the block is left, and whether it is left by an exception
LogSection(ctx) ==
  LET solutions == Solutions(ctx)
      ambiguous == Ambiguous(ctx)
      mce == MostCommon(Errors(ctx))
      frustration == Frustration(ctx)
      loop == MarkerLoop(frustration)
      issues == IF mce # <<>> \/ frustration # <<>>
                  THEN Head1("### Issues Found") \o ErrorEntries(ctx, mce, 1) \o
                       (IF frustration # <<>>
                          THEN Head1("#### Frustration Points:") \o loop.items
                          ELSE <<>>)
                  ELSE <<>>
      raised == frustration # <<>> /\ loop.raised
      attempts == IF solutions # <<>> \/ ambiguous # <<>>
                    THEN Head1("### Solutions and Attempts:") \o
                         [k \in 1..Len(solutions) |-> Item("- SOLVED:", solutions[k], 0)] \o
                         [k \in 1..Len(ambiguous) |->
                            Item("- " \o ambiguous[k].prefix, ambiguous[k].text, 0)]
                    ELSE <<>>
  IN [raised |-> raised,
      items |-> Head1("## Session") \o issues \o (IF raised THEN <<>> ELSE attempts)]

\* open(path, "a") followed by writes and close
OpenAppend_Truncate(old, items) == items
OpenAppend(old, items) == old \o items

\* open(path, "w") followed by writes and close
OpenWrite(old, items) == items

\* subprocess.run(...).stdout inside try/except: the text, "" on failure
ToolOutcomes == {[raised |-> TRUE, stdout |-> <<>>],
                 [raised |-> FALSE, stdout |-> <<>>],
                 [raised |-> FALSE, stdout |-> <<"blob">>]}

ToolSection(tag, outcome) ==
  IF ~outcome.raised /\ outcome.stdout # <<>>
    THEN <<Item(tag, outcome.stdout, 0)>> ELSE <<>>

\* the body of `with open(SUMMARY_FILE, "w") as f`
SummaryContent(ctx, git, tree) ==
  LET solutions == Solutions(ctx)
      ambiguous == Ambiguous(ctx)
      mce == MostCommon(Errors(ctx))
      open == Unresolved(ctx, mce, 1)
  IN Head1("# Last Session Summary") \o Head1("Session Date") \o
     ToolSection("## Files Changed", git) \o
     ToolSection("## Project Structure", tree) \o
     Head1("## Session Overview") \o
     (IF solutions # <<>>
        THEN Head1("### Completed Changes") \o
             [k \in 1..Len(solutions) |-> Item("- completed", solutions[k], 0)]
        ELSE <<>>) \o
     (IF ambiguous # <<>>
        THEN Head1("### In Progress/Attempted Changes") \o
             [k \in 1..Len(ambiguous) |->
                Item("- " \o ambiguous[k].prefix, ambiguous[k].text, 0)]
        ELSE <<>>) \o
     (IF mce # <<>>
        THEN Head1("### Outstanding Issues") \o
             [k \in 1..Len(open) |-> Item("- outstanding", open[k].error, open[k].count)]
        ELSE <<>>) \o
     Head1("## Next Steps") \o NextSteps(ctx)

(* ------------------------------ transcripts ---------------------------- *)
RunLineKinds == {<<"error", DOT>>, <<"fixed">>, <<"let's try">>, <<"damn">>}

Joined(lines) == JoinLines(lines, 1, Len(lines))

\* "Error: build failed\nok let's try a different approach\n
\*  ... edit_file foo.py ...\nthat worked now"
Example == Joined(<< <<"Error", "build", "failed">>,
                     <<"ok", "let's try", "a", "different approach">>,
                     <<DOT, DOT, DOT, "edit_file", "foo", DOT, "py", DOT, DOT, DOT>>,
                     <<"that worked", "now">> >>)

ResolvedOnce == Joined(<< <<"error", DOT>>, <<"edit_file">>, <<"fixed">> >>)
ResolvedTwice == Joined(<< <<"error", DOT>>, <<"edit_file">>, <<"fixed">>, <<"error", DOT>> >>)
ResolvedThenShout ==
  Joined(<< <<"error", DOT>>, <<"edit_file">>, <<"fixed">>, <<"error", DOT>>, <<"ARGH">> >>)
MaybeOnly == <<"maybe">>
Unlocatable == Joined(<< <<"error">>, <<"w">> >>)

LongerTranscripts ==
  {Example, ResolvedOnce, ResolvedTwice, ResolvedThenShout, MaybeOnly, Unlocatable}

RunTranscripts ==
  {Joined(ls) : ls \in UNION {[1..n -> RunLineKinds] : n \in 1..MaxRunLines}}
  \cup LongerTranscripts \cup {NoContext}

(* -------------------------------- actions ------------------------------ *)
RunInit ==
  /\ pc = "idle" /\ runs = 0 /\ context = <<>> /\ console = <<>>
  /\ bugfixes = <<>> /\ summary = <<>>
  /\ FindIdle /\ CtxIdle

\* a new process: context = get_conversation_context(), the extraction and
\* the print calls
Start(ctx) ==
  /\ pc \in {"idle", "done", "crashed"}
  /\ runs < MaxRuns
  /\ runs' = runs + 1
  /\ context' = ctx
  /\ console' = ConsoleOutput(ctx)
  /\ pc' = "printed"
  /\ UNCHANGED <<bugfixes, summary, findVars, ctxVars>>

\* with open(BUGFIXES_FILE, "a") as f: ...
WriteLog ==
  /\ pc = "printed"
  /\ LET section == LogSection(context)
     IN /\ bugfixes' = OpenAppend(bugfixes, section.items)
        /\ pc' = IF section.raised THEN "crashed" ELSE "logged"
  /\ UNCHANGED <<runs, context, console, summary, findVars, ctxVars>>

\* with open(SUMMARY_FILE, "w") as f: ...
WriteSummary(git, tree) ==
  /\ pc = "logged"
  /\ summary' = OpenWrite(summary, SummaryContent(context, git, tree))
  /\ pc' = "done"
  /\ UNCHANGED <<runs, context, console, bugfixes, findVars, ctxVars>>

Next ==
  \/ \E ctx \in RunTranscripts : Start(ctx)
  \/ WriteLog
  \/ \E git \in ToolOutcomes, tree \in ToolOutcomes : WriteSummary(git, tree)

Spec == RunInit /\ [][Next]_vars

(* ------------------------- properties of a run ------------------------- *)
Finished == pc \in {"done", "crashed"}
Lines == SplitLines(context)
ErrorTexts == {Errors(context)[k] : k \in 1..Len(Errors(context))}
HasItem(out, tag) == \E k \in 1..Len(out) : out[k].tag = tag
Listed(out, tag, text) == \E k \in 1..Len(out) : out[k].tag = tag /\ out[k].text = text
IsPrefix(a, b) == Len(a) <= Len(b) /\ SubSeq(b, 1, Len(a)) = a
Sections(log) == Cardinality({k \in 1..Len(log) : log[k].tag = "## Session"})

\* C2: for the example transcript the run finds one error text with count 1,
\* one tentative phrase and one SOLVED phrase, the correlator returns the
\* snippet from the edit_file line through the "that worked now" line for the
\* extracted error text, and the error is not printed as outstanding; and
\* every error text the error regex extracts is found on some transcript
\* line by the correlator.
C2_ExtractedErrorCorrelated ==
  pc # "idle" =>
    /\ \A e \in ErrorTexts : \E k \in 1..Len(Lines) : Contains(Lines[k], e)
    /\ context = Example =>
         LET mce == MostCommon(Errors(context))
         IN /\ Len(mce) = 1 /\ mce[1].count = 1
            /\ Len(Ambiguous(context)) = 1 /\ Ambiguous(context)[1].prefix = "??"
            /\ Len(Solutions(context)) = 1
            /\ find_solution_for_error(context, mce[1].error, DefaultWindow)
                 = Some(JoinLines(Lines, 3, 4))
            /\ ~HasItem(console, "!")

\* C3: every step leaves the earlier content of bugfixes.md as a prefix of
\* the new content, and the step that writes the log section of a run, also
\* one that is cut short by an exception, extends it by at least the dated
\* section header.
C3_LogOnlyGrows ==
  [][/\ IsPrefix(bugfixes, bugfixes')
     /\ (pc = "printed" /\ pc' # "printed") =>
          /\ Len(bugfixes') > Len(bugfixes)
          /\ bugfixes'[Len(bugfixes) + 1].tag = "## Session"]_vars

\* a second run was cut short while writing its log section, and the log
\* holds the sections of both runs
C3_Witness ==
  /\ pc = "crashed" /\ runs = 2
  /\ Sections(bugfixes) = 2
  /\ bugfixes[Len(bugfixes)].tag = "#### Frustration Points:"

\* C4: after every run the snapshot file holds what that run renders from
\* its transcript (and the tool outputs it obtained), whatever the findings.
C4_SnapshotIsLatestRun ==
  Finished =>
    \E git \in ToolOutcomes, tree \in ToolOutcomes :
      summary = SummaryContent(context, git, tree)

NoErrorVocabulary(ctx) == \A k \in 1..Len(ctx) : Lower(ctx[k]) \notin ErrorVocabulary

\* C7: after a run over a transcript without any error-vocabulary token,
\* neither the console output of the run nor the snapshot file has an
\* Outstanding Issues section, whatever earlier runs wrote.
C7_NoOutstandingSection ==
  (Finished /\ NoErrorVocabulary(context)) =>
    /\ ~HasItem(console, "Outstanding Issues:")
    /\ ~HasItem(summary, "### Outstanding Issues")

\* C8: console and snapshot list item 1 exactly when an unresolved error is
\* listed, item 2 exactly when a tentative or uncertain phrase exists, and
\* item 3 always.
C8_NextStepsMatchFindings ==
  LET inProgress == Ambiguous(context) # <<>>
  IN /\ pc # "idle" =>
          /\ HasItem(console, "1. Address remaining errors") <=> HasItem(console, "!")
          /\ HasItem(console, "2. Follow up on attempted changes") <=> inProgress
          /\ HasItem(console, "3. Continue with planned development tasks")
     /\ pc = "done" =>
          /\ HasItem(summary, "1. Address remaining errors") <=> HasItem(summary, "- outstanding")
          /\ HasItem(summary, "2. Follow up on attempted changes") <=> inProgress
          /\ HasItem(summary, "3. Continue with planned development tasks")

\* the occurrence of error text e on line i has a resolution line in its
\* forward window with an action line between the two
OccurrenceResolves(e, i) ==
  /\ Contains(Lines[i], e)
  /\ \E r \in 1..Len(Lines) :
       /\ r > i /\ r - i < DefaultWindow
       /\ HasResolution(Lines[r])
       /\ \E j \in (i + 1)..(r - 1) : HasAction(Lines[j])

\* C9: an error text that occurs on several lines and has one occurrence
\* that resolves gets a snippet from the correlator and, after the run, is
\* listed under Outstanding Issues neither on the console nor in the
\* snapshot file.
C9_ResolvedTextNeverListed ==
  Finished =>
    \A e \in ErrorTexts :
      (/\ Cardinality({i \in 1..Len(Lines) : Contains(Lines[i], e)}) > 1
       /\ \E i \in 1..Len(Lines) : OccurrenceResolves(e, i)) =>
        /\ find_solution_for_error(context, e, DefaultWindow).found
        /\ ~Listed(console, "!", e)
        /\ ~Listed(summary, "- outstanding", e)

(***************************************************************************)
(* Specification SpecCtx: get_conversation_context, step by step, beside   *)
(* the process that feeds standard input.                                  *)
(***************************************************************************)
\* os.getenv('CURSOR_CONTEXT'): unset, set to "", or set to a text
EnvValues == {[present |-> FALSE, text |-> <<>>],
              [present |-> TRUE, text |-> <<>>],
              [present |-> TRUE, text |-> <<"from env">>]}

\* .conversation_history: missing, not readable, empty, or holding a text
HistFiles == {[state |-> "missing", text |-> <<>>],
              [state |-> "unreadable", text |-> <<>>],
              [state |-> "ok", text |-> <<>>],
              [state |-> "ok", text |-> <<"from file">>]}

\* sys.stdin: "ok"; "invalid" (select raises on it); "undecodable" (read
\* raises on its bytes)
StdinKinds == {"ok", "invalid", "undecodable"}

CtxInit ==
  /\ cpc = "getenv"
  /\ envValue \in EnvValues
  /\ stdinKind \in StdinKinds
  /\ stdinBuf = <<>>
  /\ writerOpen \in BOOLEAN
  /\ written = 0
  /\ polled = "none"
  /\ histFile \in HistFiles
  /\ ctxResult = <<>>
  /\ FindIdle /\ RunIdle

\* the process at the other end of stdin writes a chunk
WriterWrite ==
  /\ writerOpen /\ written < MaxChunks
  /\ stdinBuf' = Append(stdinBuf, "chunk")
  /\ written' = written + 1
  /\ UNCHANGED <<cpc, envValue, stdinKind, writerOpen, polled, histFile, ctxResult, findVars, runVars>>

\* ... or closes its end
WriterClose ==
  /\ writerOpen
  /\ writerOpen' = FALSE
  /\ UNCHANGED <<cpc, envValue, stdinKind, stdinBuf, written, polled, histFile, ctxResult, findVars, runVars>>

\* cursor_context = os.getenv(...); if cursor_context: return cursor_context
GetEnv ==
  /\ cpc = "getenv"
  /\ IF envValue.present /\ envValue.text # <<>>
       THEN ctxResult' = envValue.text /\ cpc' = "returned"
       ELSE ctxResult' = ctxResult /\ cpc' = "select"
  /\ UNCHANGED <<envValue, stdinKind, stdinBuf, writerOpen, written, polled, histFile, findVars, runVars>>

\* select reports a stream readable when bytes are buffered or at end of file
Readable == stdinBuf # <<>> \/ ~writerOpen

\* select.select([sys.stdin], [], [], 0.0)[0] inside try/except
Select ==
  /\ cpc = "select"
  /\ IF stdinKind = "invalid" THEN polled' = "raised" /\ cpc' = "file"
     ELSE IF Readable THEN polled' = "ready" /\ cpc' = "read"
     ELSE polled' = "notready" /\ cpc' = "file"
  /\ UNCHANGED <<envValue, stdinKind, stdinBuf, writerOpen, written, histFile, ctxResult, findVars, runVars>>

\* sys.stdin.read() returns at end of file only: while the write end is
\* open the call waits
ReadReturns == ~writerOpen

\* return sys.stdin.read(), inside try/except
Read ==
  /\ cpc = "read"
  /\ ReadReturns
  /\ IF stdinKind = "undecodable" /\ stdinBuf # <<>>
       THEN ctxResult' = ctxResult /\ cpc' = "file"
       ELSE ctxResult' = stdinBuf /\ cpc' = "returned"
  /\ UNCHANGED <<envValue, stdinKind, stdinBuf, writerOpen, written, polled, histFile, findVars, runVars>>

\* with open('.conversation_history', 'r') as f: return f.read(), inside
\* try/except; then the sentinel
ReadFile ==
  /\ cpc = "file"
  /\ ctxResult' = IF histFile.state = "ok" THEN histFile.text ELSE NoContext
  /\ cpc' = "returned"
  /\ UNCHANGED <<envValue, stdinKind, stdinBuf, writerOpen, written, polled, histFile, findVars, runVars>>

get_conversation_context == GetEnv \/ Select \/ Read \/ ReadFile

CtxNext == WriterWrite \/ WriterClose \/ GetEnv \/ Select \/ Read \/ ReadFile

SpecCtx == CtxInit /\ [][CtxNext]_vars

\* the resolver is a running process: a step of it that can be taken is
\* taken; nothing is assumed of the process feeding stdin
FairCtx == CtxInit /\ [][CtxNext]_vars /\ WF_vars(get_conversation_context)

(* --------------------- properties of the resolver ---------------------- *)
\* C5: the value returned is the text of the first source, in the order
\* environment value, standard input (when reported readable), history
\* file, that yields content; the sentinel when none does.
C5_FirstSourceWithContent ==
  cpc = "returned" =>
    ctxResult =
      IF envValue.present /\ envValue.text # <<>> THEN envValue.text
      ELSE IF polled = "ready" /\ stdinKind = "ok" /\ stdinBuf # <<>> THEN stdinBuf
      ELSE IF histFile.state = "ok" /\ histFile.text # <<>> THEN histFile.text
      ELSE NoContext

\* C6: whatever the process feeding stdin does, the resolver eventually
\* returns.
C6_EventuallyReturns == <>(cpc = "returned")

====
